---- MODULE Spec2Model ----
(***************************************************************************)
(* Payable-bill / proposal / payment workflow of the GLS payment backend.  *)
(* Tables are functions from row ids to records; every route handler that  *)
(* writes one of the tables is one action.  No statement of the routes     *)
(* writes inward_bills.payment_status: the column is kept by the database  *)
(* schema, so both kinds of schema are carried (schemaDerives).            *)
(* Seven specifications share the actions: Spec follows one bill through   *)
(* runs of any length, SpecWide and SpecBatch take short runs over two     *)
(* items (two proposals, resp. two bills and two payment details),         *)
(* SpecUtr takes the tables of SpecBatch with UTR batches the store        *)
(* rejects, SpecBills takes runs of one bill with every field of an edit,  *)
(* SpecRoles takes runs with callers of every role, and SpecRebatch takes  *)
(* one proposal with room for two payments.  SpecRace runs the callbacks   *)
(* of accounts-action, owner-action and create-from-proposal statement by  *)
(* statement on two connections.  SpecPayables and                         *)
(* SpecReceivables take the vendor and customer masters and the bills the  *)
(* ageing reports read, with due dates on both sides of every bucket edge. *)
(***************************************************************************)
EXTENDS Integers, Sequences, FiniteSets, TLC

\* ---------------------------------------------------------------- bounds
\* Spec: one bill, one proposal with one item, followed through every stage
MaxBills       == 1
MaxProposals   == 1
MaxItems       == 1
MaxPayments    == 1
MaxDetails     == 1
MaxBatch       == 1
MaxBillAmount  == 1
MaxProposedAmount == 1
MaxAccountsAmount == 1
MaxOwnerAmount == 2
MaxPaid        == 3
MaxVersion     == 1
MaxVendors     == 1            \* the one vendor of Spec .. SpecRoles
\* SpecWide: two proposals and two items, runs of at most WideRequests requests
WideBills      == 1
WideProposals  == 2
WideItems      == 2
WidePayments   == 1
WideDetails    == 1
WideBatch      == 2
WideAmount     == 1
WidePaid       == 1
WideRequests   == 4
WideVersion    == 2
\* SpecBatch: two bills in one proposal of two items, decided in batches of
\* two, runs of at most BatchRequests requests whose callers are recorded
BatchBills     == 2
BatchProposals == 1
BatchItems     == 2
BatchPayments  == 1
BatchDetails   == 2
BatchSize      == 2
BatchAmount    == 1
BatchOwnerAmount == 2
BatchPaid      == 2
BatchRequests  == 5
BatchVersion   == 2
\* SpecBills: one bill whose dates, credit days and remarks are edited, one
\* proposal of one item, runs of at most BillsRequests requests; SpecRoles:
\* the same tables, runs of at most RolesRequests requests
BillsBills     == 1
BillsProposals == 1
BillsItems     == 1
BillsPayments  == 1
BillsDetails   == 1
BillsBatch     == 1
BillsAmount    == 1
BillsPaid      == 1
BillsRequests  == 8
BillsVersion   == 2
RolesRequests  == 7
\* SpecRebatch: one bill, one proposal of one item, room for two payments
\* of one detail each, runs of at most RebatchRequests requests
RebatchPayments == 2
RebatchDetails  == 2
RebatchPaid     == 2
RebatchRequests == 7
\* SpecRace: two bills in one proposal of two items, two transactions in
\* flight, room for two payments, runs of at most RaceRequests requests
RacePayments   == 2
RaceDetails    == 4
RaceRequests   == 5
\* SpecPayables: two vendors and two payable bills
PayVendors     == 2
PayBills       == 2
PayAmount      == 2
\* SpecReceivables: two customers and two receivable bills
RecCustomers   == 2
RecBills       == 2
RecAmount      == 2
MaxDate        == 1            \* invoice dates 0..MaxDate
MaxCreditDays  == 1            \* credit_days 0..MaxCreditDays (365 in the rules)

CURRENT_DATE == 0              \* today, in days

\* days overdue on both sides of every edge of the two ageing reports
PayableOffsets == {-1, 0, 1, 30, 31, 60, 61, 90, 91}
ReceivableOffsets == {-1, 0, 1, 15, 16, 21, 22, 30, 31}

NoAmount == -1                 \* SQL NULL in a numeric column
NoUtr == "NULL"                \* SQL NULL in utr_number
Utrs == {NoUtr, "", "UTR1"}    \* missing, empty and real UTR of a request
\* a detail_id that is not a uuid: the first query on it is rejected
BadDetailId == 0

NoDate == -999                 \* updates.invoice_date === undefined
NoDays == -1                   \* updates.credit_days === undefined
Undefined == "undefined"       \* a string field that is not in the body
Null == "NULL"                 \* SQL NULL in a text column
Reasons == {Undefined, "", "duplicate"}

AllOps == {"create_bill", "update_bill", "cancel_bill", "create_proposal",
           "submit", "delete_proposal", "accounts_action", "owner_action",
           "create_from_proposal", "update_utr"}

\* requests = 0: runs of any length; traced: the requests whose refusals are
\* recorded; callers: the caller of a recorded request is kept; words: the
\* action words of request entries; invoiceDates, creditDays: what a new bill
\* can have; editDates, editDays, editRemarks: what an edit can supply;
\* users, creators, staff: who calls the proposal routes, who creates
\* proposals, who calls the other routes
\* vendors, customers, outward: rows of the masters and of outward_bills;
\* outwardDates, outwardDays: what a new receivable bill can have;
\* outwardEditDays: the credit_days an edit of it can supply
NoLedger ==
  [vendors |-> MaxVendors, customers |-> 0, outward |-> 0,
   outwardDates |-> {}, outwardDays |-> {}, outwardEditDays |-> {},
   badDetails |-> {}]

Lim ==
  [bills |-> MaxBills, proposals |-> MaxProposals, items |-> MaxItems,
   payments |-> MaxPayments, details |-> MaxDetails, batch |-> MaxBatch,
   billAmount |-> MaxBillAmount, proposedAmount |-> MaxProposedAmount,
   accountsAmount |-> MaxAccountsAmount, ownerAmount |-> MaxOwnerAmount,
   paid |-> MaxPaid, requests |-> 0,
   traced |-> {"create_from_proposal"}, callers |-> FALSE,
   words |-> {"approve", "hold", "reject", "defer", "bogus"},
   invoiceDates |-> {CURRENT_DATE}, creditDays |-> {0},
   editDates |-> {}, editDays |-> {}, editRemarks |-> {}, versions |-> MaxVersion,
   users |-> {"purchase1", "purchase2", "owner1"},
   creators |-> {"purchase1", "owner1"}, staff |-> {"owner1"}] @@ NoLedger

WideLim ==
  [bills |-> WideBills, proposals |-> WideProposals, items |-> WideItems,
   payments |-> WidePayments, details |-> WideDetails, batch |-> WideBatch,
   billAmount |-> WideAmount, proposedAmount |-> WideAmount,
   accountsAmount |-> WideAmount, ownerAmount |-> WideAmount,
   paid |-> WidePaid, requests |-> WideRequests,
   traced |-> {}, callers |-> FALSE,
   words |-> {"approve", "hold", "reject", "defer", "bogus"},
   invoiceDates |-> {CURRENT_DATE}, creditDays |-> {0},
   editDates |-> {}, editDays |-> {}, editRemarks |-> {}, versions |-> WideVersion,
   users |-> {"purchase1", "purchase2", "owner1"},
   creators |-> {"purchase1", "owner1"}, staff |-> {"owner1"}] @@ NoLedger

BatchLim ==
  [bills |-> BatchBills, proposals |-> BatchProposals, items |-> BatchItems,
   payments |-> BatchPayments, details |-> BatchDetails, batch |-> BatchSize,
   billAmount |-> BatchAmount, proposedAmount |-> BatchAmount,
   accountsAmount |-> BatchAmount, ownerAmount |-> BatchOwnerAmount,
   paid |-> BatchPaid, requests |-> BatchRequests,
   traced |-> {"submit"}, callers |-> TRUE,
   words |-> {"approve", "defer"},
   invoiceDates |-> {CURRENT_DATE}, creditDays |-> {0},
   editDates |-> {}, editDays |-> {}, editRemarks |-> {}, versions |-> BatchVersion,
   users |-> {"purchase1", "purchase2", "owner1"},
   creators |-> {"purchase1", "owner1"}, staff |-> {"owner1"}] @@ NoLedger

\* SpecUtr: the tables of SpecBatch, one caller, approvals only; the UTR
\* batches can name a detail_id that the store rejects, and refused
\* update-utr calls are recorded
UtrLim ==
  [BatchLim EXCEPT !.traced = {"update_utr"}, !.callers = FALSE,
                   !.words = {"approve"}, !.users = {"owner1"},
                   !.creators = {"owner1"}, !.badDetails = {BadDetailId}]

RaceLim ==
  [BatchLim EXCEPT !.payments = RacePayments, !.details = RaceDetails,
                   !.requests = RaceRequests, !.ownerAmount = BatchAmount,
                   !.traced = {}, !.callers = FALSE, !.words = {"approve"},
                   !.users = {"owner1"}, !.creators = {"owner1"}]

BillsLim ==
  [bills |-> BillsBills, proposals |-> BillsProposals, items |-> BillsItems,
   payments |-> BillsPayments, details |-> BillsDetails, batch |-> BillsBatch,
   billAmount |-> BillsAmount, proposedAmount |-> BillsAmount,
   accountsAmount |-> BillsAmount, ownerAmount |-> BillsAmount,
   paid |-> BillsPaid, requests |-> BillsRequests,
   traced |-> {"update_bill", "cancel_bill"}, callers |-> FALSE,
   words |-> {"approve"},
   invoiceDates |-> 0..MaxDate, creditDays |-> 0..MaxCreditDays,
   editDates |-> 0..MaxDate, editDays |-> 0..MaxCreditDays,
   editRemarks |-> {"text"}, versions |-> BillsVersion,
   users |-> {"purchase1", "owner1"},
   creators |-> {"purchase1", "owner1"}, staff |-> {"owner1"}] @@ NoLedger

\* SpecRoles: the tables of SpecBills, callers of every role, every request
\* recorded with its caller
RebatchLim ==
  [BillsLim EXCEPT !.payments = RebatchPayments, !.details = RebatchDetails,
                   !.paid = RebatchPaid, !.requests = RebatchRequests,
                   !.traced = {}, !.invoiceDates = {CURRENT_DATE},
                   !.creditDays = {0}, !.editDates = {}, !.editDays = {},
                   !.editRemarks = {}, !.users = {"owner1"},
                   !.creators = {"owner1"}]

RolesLim ==
  [bills |-> BillsBills, proposals |-> BillsProposals, items |-> BillsItems,
   payments |-> BillsPayments, details |-> BillsDetails, batch |-> BillsBatch,
   billAmount |-> BillsAmount, proposedAmount |-> BillsAmount,
   accountsAmount |-> BillsAmount, ownerAmount |-> BillsAmount,
   paid |-> BillsPaid, requests |-> RolesRequests,
   traced |-> AllOps, callers |-> TRUE,
   words |-> {"approve"},
   invoiceDates |-> {CURRENT_DATE}, creditDays |-> {0},
   editDates |-> {}, editDays |-> {}, editRemarks |-> {}, versions |-> BillsVersion,
   users |-> {"godown1", "purchase1", "accounts1", "owner1"},
   creators |-> {"godown1", "purchase1", "accounts1", "owner1"},
   staff |-> {"godown1", "purchase1", "accounts1", "owner1"}] @@ NoLedger

\* the workflow tables are left empty
NoWorkflow ==
  [proposals |-> 0, items |-> 0, payments |-> 0, details |-> 0, batch |-> 0,
   proposedAmount |-> 0, accountsAmount |-> 0, ownerAmount |-> 0, paid |-> 0,
   requests |-> 0, traced |-> {}, callers |-> FALSE, words |-> {},
   editDates |-> {}, editDays |-> {}, editRemarks |-> {}, versions |-> 1,
   users |-> {"owner1"}, creators |-> {"owner1"}, staff |-> {"owner1"}]

PayablesLim ==
  [bills |-> PayBills, billAmount |-> PayAmount, vendors |-> PayVendors,
   invoiceDates |-> {CURRENT_DATE - d : d \in PayableOffsets}, creditDays |-> {0},
   customers |-> 0, outward |-> 0, outwardDates |-> {}, outwardDays |-> {},
   outwardEditDays |-> {}] @@ NoWorkflow

ReceivablesLim ==
  [bills |-> 0, billAmount |-> RecAmount, vendors |-> 0,
   invoiceDates |-> {}, creditDays |-> {},
   customers |-> RecCustomers, outward |-> RecBills,
   outwardDates |-> {CURRENT_DATE - d : d \in ReceivableOffsets},
   outwardDays |-> {0}, outwardEditDays |-> {0, 1}] @@ NoWorkflow

VARIABLES
  bills,          \* inward_bills:    id -> row
  proposals,      \* proposals:       id -> row
  items,          \* proposal_items:  id -> row
  payments,       \* payments:        id -> row
  details,        \* payment_details: id -> row
  nProposals,     \* proposals ever inserted (ids are never reused)
  nItems,         \* proposal_items ever inserted
  everCompleted,  \* history: proposals whose status has been 'completed'
  schemaDerives,  \* the store maintains inward_bills.payment_status itself
  run,            \* which bounds the run is under: the specification's name
  nRequests,      \* requests made so far (counted when lim.requests > 0)
  last,           \* the last request that answered 2xx or wrote to the store
  caller,         \* the user who made that request (kept when lim.callers)
  denied,         \* authorize answered it 403 (kept when lim.callers)
  vendors,        \* vendors:         id -> row
  customers,      \* customers:       id -> row
  outward,        \* outward_bills:   id -> row
  txn             \* the transactions in flight, statement by statement

vars == <<bills, proposals, items, payments, details, nProposals, nItems,
          everCompleted, schemaDerives, run, nRequests, last, caller, denied,
          vendors, customers, outward, txn>>

\* what the vendor, customer and receivable routes leave alone
workflow == <<proposals, items, payments, details, nProposals, nItems,
              everCompleted, schemaDerives, run, nRequests, last, caller, denied,
              txn>>

tables == <<bills, proposals, items, payments, details>>

lim == IF run = "SpecWide" THEN WideLim
       ELSE IF run = "SpecBatch" THEN BatchLim
       ELSE IF run = "SpecUtr" THEN UtrLim
       ELSE IF run = "SpecBills" THEN BillsLim
       ELSE IF run = "SpecRoles" THEN RolesLim
       ELSE IF run = "SpecRebatch" THEN RebatchLim
       ELSE IF run = "SpecRace" THEN RaceLim
       ELSE IF run = "SpecPayables" THEN PayablesLim
       ELSE IF run = "SpecReceivables" THEN ReceivablesLim ELSE Lim

Users == lim.users
Creators == lim.creators
Staff == lim.staff

BillIds     == 1..lim.bills
ProposalIds == 1..lim.proposals
ItemIds     == 1..lim.items
PaymentIds  == 1..lim.payments
DetailIds   == 1..lim.details
VendorIds   == 1..lim.vendors
CustomerIds == 1..lim.customers
OutwardIds  == 1..lim.outward

\* ------------------------------------------------------------- helpers
role(u) == IF u = "owner1" THEN "owner"
           ELSE IF u = "godown1" THEN "godown"
           ELSE IF u = "accounts1" THEN "accounts" ELSE "purchase"

\* faulty variant: every authenticated caller is let through
authorize_anyRole(allowedRoles, user) == TRUE

\* authorize(...allowedRoles): next() or 403
authorize(allowedRoles, user) == role(user) \in allowedRoles

\* dates are day numbers: new Date(d), setDate(getDate() + n) and
\* toISOString().split('T')[0] on a server whose clock is in UTC
addDays(date, n) == date + n

RECURSIVE SumOver(_, _)
\* sum of f[k] over the finite set ks
SumOver(f, ks) ==
  IF ks = {} THEN 0
  ELSE LET k == CHOOSE x \in ks : TRUE IN f[k] + SumOver(f, ks \ {k})

RECURSIVE SetToSeq(_)
\* the elements of a finite set of integers in ascending order
SetToSeq(S) ==
  IF S = {} THEN <<>>
  ELSE LET m == CHOOSE x \in S : \A y \in S : x <= y
       IN <<m>> \o SetToSeq(S \ {m})

\* request bodies: arrays of at most lim.batch entries
Batches(E) == UNION {[1..n -> E] : n \in 0..lim.batch}

\* BEGIN .. COMMIT / ROLLBACK around a handler body
transaction(committed, after, before) == IF committed THEN after ELSE before

\* inward_bills.payment_status as the store keeps it
paymentStatus(amount, paid_amount) ==
  IF amount - paid_amount = 0 THEN "paid"
  ELSE IF paid_amount = 0 THEN "open" ELSE "partial"

storedPaymentStatus(old, amount, paid_amount) ==
  IF schemaDerives THEN paymentStatus(amount, paid_amount) ELSE old

\* a request refused before any write leaves the tables as they were
\* a run has room for one more request
WithinBudget == lim.requests = 0 \/ nRequests < lim.requests

StampAll(op, id, ok, wrote, user, forbidden) ==
  LET kept == ok \/ wrote \/ op \in lim.traced
  IN /\ WithinBudget
     /\ nRequests' = IF lim.requests = 0 THEN 0 ELSE nRequests + 1
     /\ last' = IF kept THEN [op |-> op, id |-> id, ok |-> ok] ELSE last
     /\ caller' = IF kept /\ lim.callers THEN user ELSE caller
     /\ denied' = IF kept /\ lim.callers THEN forbidden ELSE denied
     /\ UNCHANGED <<schemaDerives, run, vendors, customers, outward, txn>>

StampBy(op, id, ok, wrote, user) == StampAll(op, id, ok, wrote, user, FALSE)

NoUser == "none"

\* history of 'completed', whatever request wrote it
Track == everCompleted' = everCompleted \cup
           {p \in DOMAIN proposals' : proposals'[p].status = "completed"}

\* connections of the pool that can hold a transaction at the same time
Txns == {1, 2}

\* a connection outside a transaction.  kind: the handler; state: idle, run,
\* done (COMMIT) or failed (ROLLBACK); id, body: the request; pc: the next
\* statement; itemW, propW: the uncommitted row versions it holds the locks
\* of; rows: what its SELECT returned; overlapped: it ran beside the other
NoTxn ==
  [kind |-> "none", state |-> "idle", id |-> 0, body |-> <<>>, pc |-> 0,
   itemW |-> <<>>, propW |-> "none", rows |-> <<>>, overlapped |-> FALSE]

\* base: proposal_items and proposals as committed when the first of the
\* transactions began
NoRace == [slot |-> [t \in Txns |-> NoTxn], base |-> <<(<<>>), (<<>>)>>]

InitWith(r) ==
  /\ bills = <<>>
  /\ proposals = <<>>
  /\ items = <<>>
  /\ payments = <<>>
  /\ details = <<>>
  /\ nProposals = 0
  /\ nItems = 0
  /\ everCompleted = {}
  /\ schemaDerives \in BOOLEAN
  /\ run = r
  /\ nRequests = 0
  /\ last = [op |-> "none", id |-> 0, ok |-> TRUE]
  /\ caller = NoUser
  /\ denied = FALSE
  /\ vendors = <<>>
  /\ customers = <<>>
  /\ outward = <<>>
  /\ txn = NoRace

Init == InitWith("Spec")

InitWide == InitWith("SpecWide")

InitBatch == InitWith("SpecBatch")
InitUtr == InitWith("SpecUtr")

InitBills == InitWith("SpecBills")

InitRoles == InitWith("SpecRoles")

InitRebatch == InitWith("SpecRebatch")

InitRace == InitWith("SpecRace")

InitPayables == InitWith("SpecPayables")

InitReceivables == InitWith("SpecReceivables")

\* 403 'Access denied': the handler is not entered
Forbidden(op, id, user) ==
  /\ UNCHANGED <<bills, proposals, items, payments, details, nProposals, nItems>>
  /\ StampAll(op, id, FALSE, FALSE, user, TRUE)
  /\ UNCHANGED everCompleted

\* ------------------------------------------------ POST /api/inward
\* validationRules.createInwardBill: credit_days is an integer of 0..365
newBill(vendor_id, amount, invoice_date, credit_days) ==
  [vendor_id |-> vendor_id, amount |-> amount, paid_amount |-> 0,
   status |-> "active",
   invoice_date |-> invoice_date, credit_days |-> credit_days,
   due_date |-> addDays(invoice_date, credit_days),
   payment_status |-> storedPaymentStatus("open", amount, 0),
   remarks |-> Null, version |-> 1,
   cancelled_by |-> Null, cancel_reason |-> Null]

CreateInwardBill ==
  /\ WithinBudget
  /\ \E user \in Staff, vendor_id \in VendorIds, amount \in 1..lim.billAmount,
     invoice_date \in lim.invoiceDates, credit_days \in lim.creditDays :
    IF ~authorize({"godown", "owner"}, user)
    THEN Forbidden("create_bill", Len(bills) + 1, user)
    ELSE \* a vendor_id without a row violates the foreign key: 400
         LET ok == vendor_id \in DOMAIN vendors
         IN
         /\ Len(bills) < lim.bills
         /\ bills' = IF ok
                     THEN Append(bills, newBill(vendor_id, amount, invoice_date,
                                                credit_days))
                     ELSE bills
         /\ StampBy("create_bill", Len(bills) + 1, ok, ok, user)
         /\ UNCHANGED <<proposals, items, payments, details, nProposals, nItems>>
         /\ Track

\* ------------------------------------------------ PUT /api/inward/:id
\* req.body: each allowed field is given or undefined (amount, invoice_date,
\* credit_days, and remarks for the fields that touch nothing else)
Updates ==
  [amount : (1..lim.billAmount) \cup {NoAmount},
   invoice_date : lim.editDates \cup {NoDate},
   credit_days : lim.editDays \cup {NoDays},
   remarks : lim.editRemarks \cup {Undefined}]

\* the allowed fields with updates[field] !== undefined
setClauses(updates) ==
  (IF updates.amount # NoAmount THEN {"amount"} ELSE {})
  \cup (IF updates.invoice_date # NoDate THEN {"invoice_date"} ELSE {})
  \cup (IF updates.credit_days # NoDays THEN {"credit_days"} ELSE {})
  \cup (IF updates.remarks # Undefined THEN {"remarks"} ELSE {})

\* faulty variant: a credit_days of 0 counts as a change like any other
recalculates_anyDays(updates) ==
  updates.invoice_date # NoDate \/ updates.credit_days # NoDays

\* if (updates.invoice_date || updates.credit_days): 0 is falsy
recalculates(updates) ==
  updates.invoice_date # NoDate
    \/ (updates.credit_days # NoDays /\ updates.credit_days # 0)

\* faulty variant: the UPDATE leaves version alone
updatedBill_sameVersion(bill, updates) ==
  [bill EXCEPT !.amount = IF updates.amount # NoAmount THEN updates.amount ELSE @,
               !.remarks = IF updates.remarks # Undefined THEN updates.remarks ELSE @]

\* the row after UPDATE inward_bills SET ..., version = version + 1
updatedBill(bill, updates) ==
  LET amount == IF updates.amount # NoAmount THEN updates.amount ELSE bill.amount
      invoiceDate == IF updates.invoice_date # NoDate THEN updates.invoice_date
                     ELSE bill.invoice_date
      creditDays == IF updates.credit_days # NoDays THEN updates.credit_days
                    ELSE bill.credit_days
  IN [bill EXCEPT
        !.amount = amount,
        !.invoice_date = invoiceDate,
        !.credit_days = creditDays,
        !.remarks = IF updates.remarks # Undefined THEN updates.remarks ELSE @,
        !.due_date = IF recalculates(updates) THEN addDays(invoiceDate, creditDays)
                     ELSE @,
        !.payment_status = storedPaymentStatus(@, amount, bill.paid_amount),
        !.version = @ + 1]

\* the three refusals of the handler after the row is found
updateAccepted(bill, updates) ==
  /\ bill.status # "cancelled"
  /\ bill.payment_status # "paid"
  /\ setClauses(updates) # {}

\* the row after the request, refused or not
updateResult(bill, updates) ==
  IF updateAccepted(bill, updates) THEN updatedBill(bill, updates) ELSE bill

UpdateInwardBill ==
  /\ WithinBudget
  /\ \E user \in Staff, id \in BillIds, updates \in Updates :
    IF ~authorize({"owner"}, user) THEN Forbidden("update_bill", id, user)
    ELSE
    LET ok == id \in DOMAIN bills /\ updateAccepted(bills[id], updates)
    IN /\ ok => bills[id].version < lim.versions
       /\ bills' = IF id \in DOMAIN bills
                   THEN [bills EXCEPT ![id] = updateResult(@, updates)]
                   ELSE bills
       /\ StampBy("update_bill", id, ok, ok, user)
       /\ UNCHANGED <<proposals, items, payments, details, nProposals, nItems>>
       /\ Track

\* ------------------------------------------------ DELETE /api/inward/:id
\* faulty variant: a bill with payments is cancelled like any other
cancelAccepted_paidToo(bill, reason) == reason \notin {Undefined, ""}

\* !reason, then paid_amount > 0
cancelAccepted(bill, reason) ==
  /\ reason \notin {Undefined, ""}
  /\ ~(bill.paid_amount > 0)

cancelledBill(bill, reason, user) ==
  [bill EXCEPT !.status = "cancelled", !.cancelled_by = user,
               !.cancel_reason = reason]

\* the row after the request, refused or not
cancelResult(bill, reason, user) ==
  IF cancelAccepted(bill, reason) THEN cancelledBill(bill, reason, user) ELSE bill

CancelInwardBill ==
  /\ WithinBudget
  /\ \E user \in Staff, id \in BillIds, reason \in Reasons :
    IF ~authorize({"owner"}, user) THEN Forbidden("cancel_bill", id, user)
    ELSE
    LET ok == id \in DOMAIN bills /\ cancelAccepted(bills[id], reason)
    IN /\ bills' = IF id \in DOMAIN bills
                   THEN [bills EXCEPT ![id] = cancelResult(@, reason, user)]
                   ELSE bills
       /\ StampBy("cancel_bill", id, ok, ok, user)
       /\ UNCHANGED <<proposals, items, payments, details, nProposals, nItems>>
       /\ Track

\* ------------------------------------------------ POST /api/proposals
\* validationRules.createProposal: items is an array of at least one entry
NewItem(p, e) ==
  [proposal_id |-> p, bill_id |-> e.bill_id, proposed_amount |-> e.proposed_amount,
   accounts_status |-> "pending", accounts_amount |-> NoAmount,
   owner_status |-> "pending", owner_amount |-> NoAmount, status |-> "proposed"]

createProposalValid(body) == Len(body) >= 1

CreateProposal ==
  /\ WithinBudget
  /\ \E user \in Creators,
     body \in Batches([bill_id : DOMAIN bills,
                      proposed_amount : 1..lim.proposedAmount]) :
    IF ~authorize({"purchase", "owner"}, user)
    THEN Forbidden("create_proposal", nProposals + 1, user)
    ELSE
    LET p == nProposals + 1
        ok == createProposalValid(body)
        total == SumOver([k \in 1..Len(body) |-> body[k].proposed_amount],
                         1..Len(body))
    IN /\ nProposals < lim.proposals
       /\ nItems + Len(body) <= lim.items
       /\ proposals' = IF ok
            THEN [q \in DOMAIN proposals \cup {p} |->
                    IF q = p THEN [status |-> "draft", created_by |-> user,
                                   total_amount |-> total]
                    ELSE proposals[q]]
            ELSE proposals
       /\ items' = IF ok
            THEN [i \in DOMAIN items \cup (nItems + 1)..(nItems + Len(body)) |->
                    IF i > nItems THEN NewItem(p, body[i - nItems]) ELSE items[i]]
            ELSE items
       /\ nProposals' = IF ok THEN p ELSE nProposals
       /\ nItems' = IF ok THEN nItems + Len(body) ELSE nItems
       /\ StampBy("create_proposal", p, ok, ok, user)
       /\ UNCHANGED <<bills, payments, details>>
       /\ Track

\* ------------------------------------------------ POST /api/proposals/:id/submit
SubmitProposal ==
  /\ WithinBudget
  /\ \E id \in ProposalIds, user \in Users :
    IF ~authorize({"purchase", "owner"}, user) THEN Forbidden("submit", id, user)
    ELSE
    LET ok == /\ id \in DOMAIN proposals
              /\ proposals[id].status = "draft"
              /\ proposals[id].created_by = user
    IN /\ proposals' = IF ok THEN [proposals EXCEPT ![id].status = "submitted"]
                       ELSE proposals
       /\ StampBy("submit", id, ok, ok, user)
       /\ UNCHANGED <<bills, items, payments, details, nProposals, nItems>>
       /\ Track

\* ------------------------------------------------ DELETE /api/proposals/:id
DeleteProposal ==
  /\ WithinBudget
  /\ \E id \in ProposalIds, user \in Users :
    IF ~authorize({"purchase", "owner"}, user)
    THEN Forbidden("delete_proposal", id, user)
    ELSE
    LET gone == {i \in DOMAIN items : items[i].proposal_id = id}
        ok == /\ id \in DOMAIN proposals
              /\ proposals[id].status = "draft"
              /\ (proposals[id].created_by = user \/ role(user) = "owner")
    IN /\ items' = [i \in DOMAIN items \ gone |-> items[i]]
       /\ proposals' = IF ok
            THEN [q \in DOMAIN proposals \ {id} |-> proposals[q]]
            ELSE proposals
       /\ StampBy("delete_proposal", id, ok, gone # {}, user)
       /\ UNCHANGED <<bills, payments, details, nProposals, nItems>>
       /\ Track

\* ------------------------------------------------ POST /api/proposals/:id/accounts-action
AccountsActions == {"approve", "hold", "reject"}
OwnerActions == {"approve", "defer", "reject"}
\* request entries: a valid action of either handler, or anything else
ActionWords == lim.words
Entries(maxAmount) ==
  [item_id : ItemIds, action : ActionWords, amount : 1..maxAmount]

accountsStatus(action) ==
  IF action = "approve" THEN "approved"
  ELSE IF action = "hold" THEN "held" ELSE "pending"

\* faulty variant: an accounts reject closes the item
accountsItemStatus_rejectCloses(action) ==
  IF action = "approve" THEN "accounts_approved"
  ELSE IF action = "hold" THEN "accounts_held" ELSE "owner_rejected"

accountsItemStatus(action) ==
  IF action = "approve" THEN "accounts_approved"
  ELSE IF action = "hold" THEN "accounts_held" ELSE "proposed"

\* faulty variant: the validated amount is added to the one already stored
accountsUpdate_accumulates(its, e) ==
  IF e.item_id \in DOMAIN its
  THEN [its EXCEPT ![e.item_id].accounts_status = accountsStatus(e.action),
                   ![e.item_id].accounts_amount = @ + e.amount,
                   ![e.item_id].status = accountsItemStatus(e.action)]
  ELSE its

\* UPDATE proposal_items ... WHERE id = item_id (no row: nothing happens)
accountsUpdate(its, e) ==
  IF e.item_id \in DOMAIN its
  THEN [its EXCEPT ![e.item_id].accounts_status = accountsStatus(e.action),
                   ![e.item_id].accounts_amount = e.amount,
                   ![e.item_id].status = accountsItemStatus(e.action)]
  ELSE its

RECURSIVE accountsLoop(_, _)
accountsLoop(its, body) ==
  IF body = <<>> THEN its
  ELSE accountsLoop(accountsUpdate(its, Head(body)), Tail(body))

\* UPDATE proposals SET status = s WHERE id = id (no row: nothing happens)
setProposalStatus(ps, id, s) ==
  IF id \in DOMAIN ps THEN [ps EXCEPT ![id].status = s] ELSE ps

\* no entry makes the loop throw
accountsValid(body) == \A k \in 1..Len(body) : body[k].action \in AccountsActions

\* proposal_items and proposals after the handler's transaction
accountsActionItems(its, body) ==
  transaction(accountsValid(body), accountsLoop(its, body), its)

accountsActionProposals(ps, id, body) ==
  transaction(accountsValid(body), setProposalStatus(ps, id, "under_review"), ps)

AccountsAction ==
  /\ WithinBudget
  /\ \E user \in Staff, id \in ProposalIds,
     body \in Batches(Entries(lim.accountsAmount)) :
    IF ~authorize({"accounts", "owner"}, user)
    THEN Forbidden("accounts_action", id, user)
    ELSE
    LET ok == accountsValid(body)
    IN /\ items' = accountsActionItems(items, body)
       /\ proposals' = accountsActionProposals(proposals, id, body)
       /\ StampBy("accounts_action", id, ok, ok, user)
       /\ UNCHANGED <<bills, payments, details, nProposals, nItems>>
       /\ Track

\* ------------------------------------------------ POST /api/proposals/:id/owner-action
ownerStatus(action) ==
  IF action = "approve" THEN "approved"
  ELSE IF action = "defer" THEN "deferred" ELSE "rejected"

ownerItemStatus(action) ==
  IF action = "approve" THEN "owner_approved"
  ELSE IF action = "defer" THEN "owner_deferred" ELSE "owner_rejected"

\* faulty variant: the owner's decision also resets the accounts decision
ownerUpdate_resetsAccounts(its, e) ==
  IF e.item_id \in DOMAIN its
  THEN [its EXCEPT ![e.item_id].owner_status = ownerStatus(e.action),
                   ![e.item_id].owner_amount = e.amount,
                   ![e.item_id].accounts_status = "pending",
                   ![e.item_id].status =
                      IF e.action = "defer" THEN "carry_forward"
                      ELSE ownerItemStatus(e.action)]
  ELSE its

\* UPDATE proposal_items ... WHERE id = item_id, and a second UPDATE on defer
ownerUpdate(its, e) ==
  IF e.item_id \in DOMAIN its
  THEN [its EXCEPT ![e.item_id].owner_status = ownerStatus(e.action),
                   ![e.item_id].owner_amount = e.amount,
                   ![e.item_id].status =
                      IF e.action = "defer" THEN "carry_forward"
                      ELSE ownerItemStatus(e.action)]
  ELSE its

RECURSIVE ownerLoop(_, _)
ownerLoop(its, body) ==
  IF body = <<>> THEN its
  ELSE ownerLoop(ownerUpdate(its, Head(body)), Tail(body))

\* faulty variant: an approving owner action closes the proposal itself
ownerNewStatus_completes(hasApproved, hasDeferred) ==
  IF hasApproved /\ ~hasDeferred THEN "completed"
  ELSE IF hasApproved /\ hasDeferred THEN "partial_approved" ELSE "rejected"

ownerNewStatus(hasApproved, hasDeferred) ==
  IF hasApproved /\ ~hasDeferred THEN "approved"
  ELSE IF hasApproved /\ hasDeferred THEN "partial_approved" ELSE "rejected"

\* no entry makes the loop throw
ownerValid(body) == \A k \in 1..Len(body) : body[k].action \in OwnerActions

hasApproved(body) == \E k \in 1..Len(body) : body[k].action = "approve"

hasDeferred(body) == \E k \in 1..Len(body) : body[k].action = "defer"

\* proposal_items and proposals after the handler's transaction
ownerActionItems(its, body) ==
  transaction(ownerValid(body), ownerLoop(its, body), its)

ownerActionProposals(ps, id, body) ==
  transaction(ownerValid(body),
              setProposalStatus(ps, id,
                                ownerNewStatus(hasApproved(body), hasDeferred(body))),
              ps)

OwnerAction ==
  /\ WithinBudget
  /\ \E user \in Staff, id \in ProposalIds,
     body \in Batches(Entries(lim.ownerAmount)) :
    IF ~authorize({"owner"}, user) THEN Forbidden("owner_action", id, user)
    ELSE
    LET ok == ownerValid(body)
    IN /\ items' = ownerActionItems(items, body)
       /\ proposals' = ownerActionProposals(proposals, id, body)
       /\ StampBy("owner_action", id, ok, ok, user)
       /\ UNCHANGED <<bills, payments, details, nProposals, nItems>>
       /\ Track

\* ------------------------------------------------ POST /api/payments/create-from-proposal
\* faulty variant: the status test also lets a proposal under review through
proposalPayable_alsoUnderReview(status) ==
  status \in {"under_review", "approved", "partial_approved"}

proposalPayable(status) == status \in {"approved", "partial_approved"}

\* faulty variant: every item of the proposal is batched, whatever the owner decided
approvedItems_all(its, p) == {i \in DOMAIN its : its[i].proposal_id = p}

approvedItems(its, p) ==
  {i \in DOMAIN its : its[i].proposal_id = p /\ its[i].owner_status = "approved"}

CreateFromProposal ==
  /\ WithinBudget
  /\ \E user \in Staff, p \in ProposalIds :
    IF ~authorize({"accounts", "owner"}, user)
    THEN Forbidden("create_from_proposal", p, user)
    ELSE
    LET found == p \in DOMAIN proposals /\ proposalPayable(proposals[p].status)
        rows == SetToSeq(approvedItems(items, p))
        ok == found /\ Len(rows) > 0
        pay == Len(payments) + 1
        total == SumOver([i \in DOMAIN items |-> items[i].owner_amount],
                         approvedItems(items, p))
        n == Len(details)
    IN /\ ok => Len(payments) < lim.payments /\ n + Len(rows) <= lim.details
       /\ payments' = IF ok
            THEN Append(payments, [proposal_id |-> p, total_amount |-> total,
                                   status |-> "pending"])
            ELSE payments
       /\ details' = IF ok
            THEN details \o
                 [k \in 1..Len(rows) |->
                    [payment_id |-> pay, bill_id |-> items[rows[k]].bill_id,
                     proposal_item_id |-> rows[k],
                     amount |-> items[rows[k]].owner_amount,
                     utr_number |-> NoUtr, status |-> "pending"]]
            ELSE details
       /\ proposals' = IF ok THEN setProposalStatus(proposals, p, "completed")
                       ELSE proposals
       /\ StampBy("create_from_proposal", p, ok, ok, user)
       /\ UNCHANGED <<bills, items, nProposals, nItems>>
       /\ Track

\* ------------------------------------------------ POST /api/payments/:id/update-utr
UtrEntries == [detail_id : DetailIds \cup lim.badDetails, utr_number : Utrs]

truthy(utr) == utr # NoUtr /\ utr # ""

\* one pass of the loop body over the triple <<details, bills, items>>
utrStep(st, id, e) ==
  LET ds == st[1]
      bs == st[2]
      its == st[3]
      d == e.detail_id
      ds1 == IF d \in DOMAIN ds /\ ds[d].payment_id = id
             THEN [ds EXCEPT ![d].utr_number = e.utr_number,
                             ![d].status = "confirmed"]
             ELSE ds
      settle == d \in DOMAIN ds1 /\ truthy(e.utr_number)
      b == ds1[d].bill_id
      i == ds1[d].proposal_item_id
      bs1 == IF settle
             THEN [bs EXCEPT ![b].paid_amount = @ + ds1[d].amount,
                     ![b].payment_status =
                        storedPaymentStatus(@, bs[b].amount,
                                            bs[b].paid_amount + ds1[d].amount)]
             ELSE bs
      its1 == IF settle /\ i \in DOMAIN its
              THEN [its EXCEPT ![i].status = "paid"]
              ELSE its
  IN <<ds1, bs1, its1>>

RECURSIVE utrLoop(_, _, _)
utrLoop(st, id, body) ==
  IF body = <<>> THEN st
  ELSE utrLoop(utrStep(st, id, Head(body)), id, Tail(body))

\* faulty variant: an empty UTR counts as entered
pendingCount_nullOnly(ds, id) ==
  Cardinality({d \in DOMAIN ds : ds[d].payment_id = id /\ ds[d].utr_number = NoUtr})

pendingCount(ds, id) ==
  Cardinality({d \in DOMAIN ds :
      ds[d].payment_id = id /\ (ds[d].utr_number = NoUtr \/ ds[d].utr_number = "")})

paymentNewStatus(pending) == IF pending = 0 THEN "confirmed" ELSE "processed"

\* no query of the loop is rejected
utrValid(body) == \A k \in 1..Len(body) : body[k].detail_id # BadDetailId

\* faulty variant: the writes made before the rejected query are kept
updateUtrTables_keepsPrefix(ds, bs, its, ps, id, body) ==
  LET bad == {k \in 1..Len(body) : body[k].detail_id = BadDetailId}
      first == IF bad = {} THEN Len(body) + 1
               ELSE CHOOSE k \in bad : \A l \in bad : k <= l
      st == utrLoop(<<ds, bs, its>>, id, SubSeq(body, 1, first - 1))
      ps1 == IF id \in DOMAIN ps /\ bad = {}
             THEN [ps EXCEPT ![id].status = paymentNewStatus(pendingCount(st[1], id))]
             ELSE ps
  IN <<st[1], st[2], st[3], ps1>>

\* <<details, bills, items, payments>> after the handler's transaction
updateUtrTables(ds, bs, its, ps, id, body) ==
  LET st == utrLoop(<<ds, bs, its>>, id, body)
      ps1 == IF id \in DOMAIN ps
             THEN [ps EXCEPT ![id].status = paymentNewStatus(pendingCount(st[1], id))]
             ELSE ps
  IN transaction(utrValid(body), <<st[1], st[2], st[3], ps1>>, <<ds, bs, its, ps>>)

UpdateUtr ==
  /\ WithinBudget
  /\ \E user \in Staff, id \in PaymentIds, body \in Batches(UtrEntries) :
    IF ~authorize({"accounts", "owner"}, user) THEN Forbidden("update_utr", id, user)
    ELSE
    LET ok == utrValid(body)
        st == updateUtrTables(details, bills, items, payments, id, body)
    IN /\ \A b \in DOMAIN st[2] : st[2][b].paid_amount <= lim.paid
       /\ details' = st[1]
       /\ bills' = st[2]
       /\ items' = st[3]
       /\ payments' = st[4]
       /\ StampBy("update_utr", id, ok, ok, user)
       /\ UNCHANGED <<proposals, nProposals, nItems>>
       /\ Track

\* ------------------------------------------------ GET /api/proposals/available-bills
\* req.query.filter; "none" stands for an absent or unknown value.  The
\* vendor_id parameter only narrows the result and is not modelled.
Filters == {"none", "overdue", "due_today", "due_week", "carry_forward"}

\* ib.status = 'active' AND ib.payment_status != 'paid'
activeUnpaid(b) == bills[b].status = "active" /\ bills[b].payment_status # "paid"

\* EXISTS (proposal_items pi JOIN proposals p ... WHERE pi.bill_id = ib.id
\*   AND p.status NOT IN ('rejected','completed')
\*   AND pi.status NOT IN ('owner_rejected','paid'))
existsOpenItem(b) ==
  \E i \in DOMAIN items :
     /\ items[i].proposal_id \in DOMAIN proposals
     /\ items[i].bill_id = b
     /\ proposals[items[i].proposal_id].status \notin {"rejected", "completed"}
     /\ items[i].status \notin {"owner_rejected", "paid"}

\* EXISTS (proposal_items pi WHERE pi.bill_id = ib.id AND pi.status = 'carry_forward')
existsCarryForward(b) ==
  \E i \in DOMAIN items : items[i].bill_id = b /\ items[i].status = "carry_forward"

dueMatches(filter, b) ==
  IF filter = "overdue" THEN bills[b].due_date < CURRENT_DATE
  ELSE IF filter = "due_today" THEN bills[b].due_date = CURRENT_DATE
  ELSE IF filter = "due_week"
       THEN bills[b].due_date >= CURRENT_DATE /\ bills[b].due_date <= CURRENT_DATE + 7
  ELSE TRUE

\* the ids of result.rows; filter = carry_forward replaces the whole WHERE clause
availableBills(filter) ==
  {b \in DOMAIN bills :
     IF filter = "carry_forward"
     THEN activeUnpaid(b) /\ existsCarryForward(b)
     ELSE activeUnpaid(b) /\ ~existsOpenItem(b) /\ dueMatches(filter, b)}

\* ------------------------------------------------ errorHandler
\* process.env.NODE_ENV as the server may be started
NodeEnvs == {"development", "production"}

\* throw new Error(`Invalid action: ${action}`): the message carries the
\* action word of the entry and nothing else of it
invalidActionError(e) ==
  [name |-> "Error", text |-> "Invalid action: ", carries |-> {<<"action", e.action>>}]

\* the default branch: status 500, err.name, and err.message in development only
errorHandler(env, err) ==
  [status |-> 500, error |-> err.name,
   message |-> IF env = "development"
               THEN [text |-> err.text, carries |-> err.carries]
               ELSE [text |-> "An unexpected error occurred", carries |-> {}]]

\* the first entry of the batch that makes the loop throw
firstInvalid(body, valid) ==
  body[CHOOSE k \in 1..Len(body) :
         /\ body[k].action \notin valid
         /\ \A l \in 1..(k - 1) : body[l].action \in valid]

okResponse(text) == [status |-> 200, message |-> [text |-> text, carries |-> {}]]

\* what accounts-action and owner-action answer
accountsActionResponse(env, body) ==
  IF accountsValid(body) THEN okResponse("Accounts validation updated")
  ELSE errorHandler(env, invalidActionError(firstInvalid(body, AccountsActions)))

ownerActionResponse(env, body) ==
  IF ownerValid(body) THEN okResponse("Owner approval processed")
  ELSE errorHandler(env, invalidActionError(firstInvalid(body, OwnerActions)))

\* ------------------------------------------------ /api/vendors
\* rows carry is_active only; a new row is active
CreateVendor ==
  \E user \in Staff :
    /\ Len(vendors) < lim.vendors
    /\ vendors' = IF authorize({"owner", "accounts"}, user)
                  THEN Append(vendors, [is_active |-> TRUE]) ELSE vendors
    /\ UNCHANGED <<bills, customers, outward>>
    /\ UNCHANGED workflow

\* PUT /api/vendors/:id with is_active in the body: no test of the bills
UpdateVendor ==
  \E user \in Staff, id \in VendorIds, is_active \in BOOLEAN :
    LET ok == authorize({"owner", "accounts"}, user) /\ id \in DOMAIN vendors
    IN /\ vendors' = IF ok THEN [vendors EXCEPT ![id].is_active = is_active]
                     ELSE vendors
       /\ UNCHANGED <<bills, customers, outward>>
       /\ UNCHANGED workflow

\* DELETE /api/vendors/:id: refused while the vendor has outstanding bills
outstandingCount(bs, id) ==
  Cardinality({b \in DOMAIN bs : /\ bs[b].vendor_id = id
                                 /\ bs[b].status = "active"
                                 /\ bs[b].payment_status # "paid"})

DeleteVendor ==
  \E user \in Staff, id \in VendorIds :
    LET ok == /\ authorize({"owner"}, user)
              /\ ~(outstandingCount(bills, id) > 0)
              /\ id \in DOMAIN vendors
    IN /\ vendors' = IF ok THEN [vendors EXCEPT ![id].is_active = FALSE]
                     ELSE vendors
       /\ UNCHANGED <<bills, customers, outward>>
       /\ UNCHANGED workflow

\* ------------------------------------------------ /api/customers
CreateCustomer ==
  \E user \in Staff :
    /\ Len(customers) < lim.customers
    /\ customers' = IF authorize({"owner", "accounts"}, user)
                    THEN Append(customers, [is_active |-> TRUE]) ELSE customers
    /\ UNCHANGED <<bills, vendors, outward>>
    /\ UNCHANGED workflow

UpdateCustomer ==
  \E user \in Staff, id \in CustomerIds, is_active \in BOOLEAN :
    LET ok == authorize({"owner", "accounts"}, user) /\ id \in DOMAIN customers
    IN /\ customers' = IF ok THEN [customers EXCEPT ![id].is_active = is_active]
                       ELSE customers
       /\ UNCHANGED <<bills, vendors, outward>>
       /\ UNCHANGED workflow

\* ------------------------------------------------ POST /api/outward
\* validationRules.createOutwardBill: credit_days is an integer of 0..365;
\* the INSERT names no status, the row gets the column's default
OutwardDefaultStatus == "active"

newOutwardBill(customer_id, amount, invoice_date, credit_days) ==
  [customer_id |-> customer_id, amount |-> amount, collected_amount |-> 0,
   invoice_date |-> invoice_date, credit_days |-> credit_days,
   due_date |-> addDays(invoice_date, credit_days),
   status |-> OutwardDefaultStatus]

CreateOutwardBill ==
  \E user \in Staff, customer_id \in CustomerIds, amount \in 1..lim.billAmount,
     invoice_date \in lim.outwardDates, credit_days \in lim.outwardDays :
    LET ok == authorize({"godown", "owner"}, user)
                /\ customer_id \in DOMAIN customers
    IN /\ Len(outward) < lim.outward
       /\ outward' = IF ok
                     THEN Append(outward, newOutwardBill(customer_id, amount,
                                                         invoice_date, credit_days))
                     ELSE outward
       /\ UNCHANGED <<bills, vendors, customers>>
       /\ UNCHANGED workflow

\* ------------------------------------------------ PUT /api/outward/:id
OutwardUpdates ==
  [amount : (1..lim.billAmount) \cup {NoAmount},
   credit_days : lim.outwardEditDays \cup {NoDays}]

\* the SET list is the supplied fields and updated_at; due_date is not in it
updatedOutwardBill(row, updates) ==
  [row EXCEPT
     !.amount = IF updates.amount # NoAmount THEN updates.amount ELSE @,
     !.credit_days = IF updates.credit_days # NoDays THEN updates.credit_days ELSE @]

UpdateOutwardBill ==
  \E user \in Staff, id \in OutwardIds, updates \in OutwardUpdates :
    LET ok == /\ authorize({"owner"}, user)
              /\ updates.amount # NoAmount \/ updates.credit_days # NoDays
              /\ id \in DOMAIN outward
              /\ outward[id].status # "cancelled"
    IN /\ outward' = IF ok
                     THEN [outward EXCEPT ![id] = updatedOutwardBill(@, updates)]
                     ELSE outward
       /\ UNCHANGED <<bills, vendors, customers>>
       /\ UNCHANGED workflow

\* ------------------------------------------------ DELETE /api/outward/:id
CancelOutwardBill ==
  \E user \in Staff, id \in OutwardIds, reason \in Reasons :
    LET ok == /\ authorize({"owner"}, user)
              /\ reason \notin {Undefined, ""}
              /\ id \in DOMAIN outward
              /\ ~(outward[id].collected_amount > 0)
    IN /\ outward' = IF ok THEN [outward EXCEPT ![id].status = "cancelled"]
                     ELSE outward
       /\ UNCHANGED <<bills, vendors, customers>>
       /\ UNCHANGED workflow

\* ------------------------------------------------ receivables ageing
ReceivableBuckets == {"current", "1-15", "16-21", "22-30", "30+"}

\* faulty variant: the 1-15 and 16-21 sums split at due_date > CURRENT_DATE - 15
receivablesCase_exclusive(bucket, due_date) ==
  IF bucket = "current" THEN due_date >= CURRENT_DATE
  ELSE IF bucket = "1-15"
       THEN due_date < CURRENT_DATE /\ due_date > CURRENT_DATE - 15
  ELSE IF bucket = "16-21"
       THEN due_date <= CURRENT_DATE - 15 /\ due_date >= CURRENT_DATE - 21
  ELSE IF bucket = "22-30"
       THEN due_date < CURRENT_DATE - 21 /\ due_date >= CURRENT_DATE - 30
  ELSE due_date < CURRENT_DATE - 30

\* the WHEN condition of each of the five SUM(CASE ...) columns
receivablesCase(bucket, due_date) ==
  IF bucket = "current" THEN due_date >= CURRENT_DATE
  ELSE IF bucket = "1-15"
       THEN due_date < CURRENT_DATE /\ due_date >= CURRENT_DATE - 15
  ELSE IF bucket = "16-21"
       THEN due_date < CURRENT_DATE - 15 /\ due_date >= CURRENT_DATE - 21
  ELSE IF bucket = "22-30"
       THEN due_date < CURRENT_DATE - 21 /\ due_date >= CURRENT_DATE - 30
  ELSE due_date < CURRENT_DATE - 30

\* status NOT IN ('cancelled', 'paid')
receivableRows(ob) ==
  {i \in DOMAIN ob : ob[i].status \notin {"cancelled", "paid"}}

\* SUM(amount - collected_amount) over a set of rows, 0 for none
outstandingOf(ob, rows) ==
  SumOver([i \in DOMAIN ob |-> ob[i].amount - ob[i].collected_amount], rows)

\* GET /api/outward/receivables-ageing: an amount and a count per bucket
receivablesAgeing(ob) ==
  [b \in ReceivableBuckets |->
     LET rows == {i \in receivableRows(ob) : receivablesCase(b, ob[i].due_date)}
     IN [amount |-> outstandingOf(ob, rows), count |-> Cardinality(rows)]]

\* GET /api/customers/:id/receivables-ageing: the amounts of one customer
customerAgeing(ob, id) ==
  [b \in ReceivableBuckets |->
     outstandingOf(ob, {i \in receivableRows(ob) :
                          /\ ob[i].customer_id = id
                          /\ receivablesCase(b, ob[i].due_date)})]

\* GET /api/reports/receivables-ageing: a row per active customer whose
\* outstanding total is positive
receivablesReport(cs, ob) ==
  [c \in {c \in DOMAIN cs :
            /\ cs[c].is_active
            /\ outstandingOf(ob, {i \in receivableRows(ob) :
                                    ob[i].customer_id = c}) > 0} |->
     [buckets |-> customerAgeing(ob, c),
      total_outstanding |-> outstandingOf(ob, {i \in receivableRows(ob) :
                                                 ob[i].customer_id = c})]]

\* ------------------------------------------------ GET /api/reports/payables-ageing
PayableBuckets == {"current", "1-30", "31-60", "61-90", "90+"}

payablesCase(bucket, due_date) ==
  IF bucket = "current" THEN due_date >= CURRENT_DATE
  ELSE IF bucket = "1-30"
       THEN due_date < CURRENT_DATE /\ due_date >= CURRENT_DATE - 30
  ELSE IF bucket = "31-60"
       THEN due_date < CURRENT_DATE - 30 /\ due_date >= CURRENT_DATE - 60
  ELSE IF bucket = "61-90"
       THEN due_date < CURRENT_DATE - 60 /\ due_date >= CURRENT_DATE - 90
  ELSE due_date < CURRENT_DATE - 90

\* status = 'active' AND payment_status != 'paid'
payableRows(bs) ==
  {b \in DOMAIN bs : bs[b].status = "active" /\ bs[b].payment_status # "paid"}

payableOf(bs, rows) ==
  SumOver([b \in DOMAIN bs |-> bs[b].amount - bs[b].paid_amount], rows)

\* the summary query: the five totals and grand_total
payablesSummary(bs) ==
  [buckets |-> [k \in PayableBuckets |->
                  payableOf(bs, {b \in payableRows(bs) :
                                   payablesCase(k, bs[b].due_date)})],
   grand_total |-> payableOf(bs, payableRows(bs))]

\* the vendor-wise query: a row per active vendor whose total is positive
payablesReport(vs, bs) ==
  [v \in {v \in DOMAIN vs :
            /\ vs[v].is_active
            /\ payableOf(bs, {b \in payableRows(bs) : bs[b].vendor_id = v}) > 0} |->
     [buckets |-> [k \in PayableBuckets |->
                     payableOf(bs, {b \in payableRows(bs) :
                                      /\ bs[b].vendor_id = v
                                      /\ payablesCase(k, bs[b].due_date)})],
      total_outstanding |->
         payableOf(bs, {b \in payableRows(bs) : bs[b].vendor_id = v})]]

\* ------------------------------------------------ concurrent transactions
\* Each handler's callback runs on its own connection, statement by
\* statement.  An UPDATE takes the lock of its row and keeps it until COMMIT
\* or ROLLBACK; an UPDATE of a locked row waits; a SELECT reads what is
\* committed; rows inserted or updated are seen by the others at COMMIT.
other(t) == CHOOSE u \in Txns : u # t

running(t) == txn.slot[t].state = "run"

\* no transaction is in flight
Quiet == \A t \in Txns : ~running(t)

\* faulty variant: an UPDATE does not wait for the lock of its row
itemLocked_never(t, i) == FALSE

\* the other transaction holds the lock of proposal_items row i
itemLocked(t, i) == running(other(t)) /\ i \in DOMAIN txn.slot[other(t)].itemW

\* the other transaction holds the lock of proposals row id
proposalLocked(t, id) ==
  /\ running(other(t))
  /\ txn.slot[other(t)].propW # "none"
  /\ txn.slot[other(t)].id = id

TxnKinds == {"accounts", "owner", "batch"}

txnRoles(kind) == IF kind = "owner" THEN {"owner"} ELSE {"accounts", "owner"}

txnOp(kind) ==
  IF kind = "accounts" THEN "accounts_action"
  ELSE IF kind = "owner" THEN "owner_action" ELSE "create_from_proposal"

txnBodies(kind) ==
  IF kind = "accounts" THEN Batches(Entries(lim.accountsAmount))
  ELSE IF kind = "owner" THEN Batches(Entries(lim.ownerAmount)) ELSE {<<>>}

\* the statements of a callback before its COMMIT: one UPDATE per entry and
\* the UPDATE of the proposal; for a batch the two SELECTs and that UPDATE
\* (its INSERTs are seen by nobody before COMMIT and are applied there)
statements(x) == IF x.kind = "batch" THEN 3 ELSE Len(x.body) + 1

\* ROLLBACK: the row versions and their locks are dropped
rolledBack(x) == [x EXCEPT !.state = "failed", !.itemW = <<>>, !.propW = "none"]

\* the request enters its handler and the callback gets a connection
BeginTxn(t) ==
  /\ WithinBudget
  /\ ~running(t)
  /\ Quiet => t = 1          \* the connections are alike: the first is taken first
  /\ running(other(t)) => txn.slot[t].state = "idle"
  /\ \E user \in Staff, kind \in TxnKinds, id \in ProposalIds :
       \E body \in txnBodies(kind) :
         IF ~authorize(txnRoles(kind), user) THEN Forbidden(txnOp(kind), id, user)
         ELSE
         /\ kind = "batch" =>
              Len(payments) + Cardinality({u \in Txns : running(u)}) < lim.payments
         /\ txn' =
              [slot |-> [u \in Txns |->
                  IF u = t
                  THEN [NoTxn EXCEPT !.kind = kind, !.state = "run", !.id = id,
                                     !.body = body, !.pc = 1,
                                     !.overlapped = running(other(t))]
                  ELSE IF running(u) THEN [txn.slot[u] EXCEPT !.overlapped = TRUE]
                  ELSE NoTxn],
               base |-> IF running(other(t)) THEN txn.base ELSE <<items, proposals>>]
         /\ nRequests' = IF lim.requests = 0 THEN 0 ELSE nRequests + 1
         /\ UNCHANGED <<bills, proposals, items, payments, details, nProposals,
                        nItems, everCompleted, schemaDerives, run, last, caller,
                        denied, vendors, customers, outward>>

\* what the steps of a transaction leave alone
txnFrame ==
  UNCHANGED <<bills, nProposals, nItems, schemaDerives, run, nRequests, last,
              caller, denied, vendors, customers, outward>>

\* accounts-action / owner-action: the loop body for the next entry
UpdateItem(t) ==
  LET x == txn.slot[t]
      e == x.body[x.pc]
      i == e.item_id
      valid == e.action \in (IF x.kind = "accounts" THEN AccountsActions
                             ELSE OwnerActions)
      cur == IF i \in DOMAIN x.itemW THEN x.itemW[i] ELSE items[i]
      new == IF x.kind = "accounts" THEN accountsUpdate(i :> cur, e)[i]
             ELSE ownerUpdate(i :> cur, e)[i]
  IN /\ running(t)
     /\ x.kind \in {"accounts", "owner"}
     /\ x.pc <= Len(x.body)
     /\ IF ~valid THEN txn' = [txn EXCEPT !.slot[t] = rolledBack(x)]
        ELSE IF i \notin DOMAIN items THEN txn' = [txn EXCEPT !.slot[t].pc = @ + 1]
        ELSE /\ ~itemLocked(t, i)
             /\ txn' = [txn EXCEPT !.slot[t].pc = @ + 1,
                                   !.slot[t].itemW = (i :> new) @@ @]
     /\ UNCHANGED <<proposals, items, payments, details, everCompleted>>
     /\ txnFrame

\* create-from-proposal: SELECT * FROM proposals WHERE id = $1 AND status IN (..)
SelectProposal(t) ==
  LET x == txn.slot[t]
      found == x.id \in DOMAIN proposals /\ proposalPayable(proposals[x.id].status)
  IN /\ running(t)
     /\ x.kind = "batch"
     /\ x.pc = 1
     /\ txn' = IF found THEN [txn EXCEPT !.slot[t].pc = 2]
               ELSE [txn EXCEPT !.slot[t] = rolledBack(x)]
     /\ UNCHANGED <<proposals, items, payments, details, everCompleted>>
     /\ txnFrame

\* create-from-proposal: the items with owner_status = 'approved'
SelectItems(t) ==
  LET x == txn.slot[t]
      ids == SetToSeq(approvedItems(items, x.id))
      rows == [k \in 1..Len(ids) |->
                 [bill_id |-> items[ids[k]].bill_id, proposal_item_id |-> ids[k],
                  amount |-> items[ids[k]].owner_amount]]
  IN /\ running(t)
     /\ x.kind = "batch"
     /\ x.pc = 2
     /\ txn' = IF Len(rows) > 0
               THEN [txn EXCEPT !.slot[t].pc = 3, !.slot[t].rows = rows]
               ELSE [txn EXCEPT !.slot[t] = rolledBack(x)]
     /\ UNCHANGED <<proposals, items, payments, details, everCompleted>>
     /\ txnFrame

\* the status a callback writes to its proposal
txnStatus(x) ==
  IF x.kind = "accounts" THEN "under_review"
  ELSE IF x.kind = "owner"
       THEN ownerNewStatus(hasApproved(x.body), hasDeferred(x.body))
  ELSE "completed"

\* UPDATE proposals SET status = .. WHERE id = $n, the last statement
UpdateProposal(t) ==
  LET x == txn.slot[t]
  IN /\ running(t)
     /\ x.pc = statements(x)
     /\ IF x.id \notin DOMAIN proposals THEN txn' = [txn EXCEPT !.slot[t].pc = @ + 1]
        ELSE /\ ~proposalLocked(t, x.id)
             /\ txn' = [txn EXCEPT !.slot[t].pc = @ + 1,
                                   !.slot[t].propW = txnStatus(x)]
     /\ UNCHANGED <<proposals, items, payments, details, everCompleted>>
     /\ txnFrame

\* COMMIT: the row versions replace the committed ones, the inserted rows
\* get their ids, the locks are released
Commit(t) ==
  LET x == txn.slot[t]
      pay == Len(payments) + 1
      total == SumOver([k \in 1..Len(x.rows) |-> x.rows[k].amount], 1..Len(x.rows))
  IN /\ running(t)
     /\ x.pc = statements(x) + 1
     /\ items' = [i \in DOMAIN items |->
                    IF i \in DOMAIN x.itemW THEN x.itemW[i] ELSE items[i]]
     /\ proposals' = IF x.propW = "none" THEN proposals
                     ELSE setProposalStatus(proposals, x.id, x.propW)
     /\ payments' = IF x.kind = "batch"
          THEN Append(payments, [proposal_id |-> x.id, total_amount |-> total,
                                 status |-> "pending"])
          ELSE payments
     /\ details' = IF x.kind = "batch"
          THEN details \o
               [k \in 1..Len(x.rows) |->
                  [payment_id |-> pay, bill_id |-> x.rows[k].bill_id,
                   proposal_item_id |-> x.rows[k].proposal_item_id,
                   amount |-> x.rows[k].amount,
                   utr_number |-> NoUtr, status |-> "pending"]]
          ELSE details
     /\ txn' = [txn EXCEPT !.slot[t].state = "done", !.slot[t].itemW = <<>>,
                           !.slot[t].propW = "none"]
     /\ Track
     /\ txnFrame

\* the next statement of t waits for a lock of the other transaction
waiting(t) ==
  LET x == txn.slot[t]
  IN /\ running(t)
     /\ \/ /\ x.kind \in {"accounts", "owner"}
           /\ x.pc <= Len(x.body)
           /\ x.body[x.pc].item_id \in DOMAIN items
           /\ itemLocked(t, x.body[x.pc].item_id)
        \/ /\ x.pc = statements(x)
           /\ x.id \in DOMAIN proposals
           /\ proposalLocked(t, x.id)

\* each waits for the other: the store ends one of them with an error
Deadlock(t) ==
  /\ waiting(t)
  /\ waiting(other(t))
  /\ txn' = [txn EXCEPT !.slot[t] = rolledBack(txn.slot[t])]
  /\ UNCHANGED <<proposals, items, payments, details, everCompleted>>
  /\ txnFrame

Next ==
  \/ CreateVendor
  \/ CreateInwardBill
  \/ UpdateInwardBill
  \/ CancelInwardBill
  \/ CreateProposal
  \/ SubmitProposal
  \/ DeleteProposal
  \/ AccountsAction
  \/ OwnerAction
  \/ CreateFromProposal
  \/ UpdateUtr

Spec == Init /\ [][Next]_vars

SpecWide == InitWide /\ [][Next]_vars

SpecBills == InitBills /\ [][Next]_vars

SpecRoles == InitRoles /\ [][Next]_vars
SpecRebatch == InitRebatch /\ [][Next]_vars

\* the tables are filled between the transactions
NextRace ==
  \/ Quiet /\ CreateVendor
  \/ Quiet /\ CreateInwardBill
  \/ Quiet /\ CreateProposal
  \/ \E t \in Txns : BeginTxn(t)
  \/ \E t \in Txns : UpdateItem(t)
  \/ \E t \in Txns : SelectProposal(t)
  \/ \E t \in Txns : SelectItems(t)
  \/ \E t \in Txns : UpdateProposal(t)
  \/ \E t \in Txns : Commit(t)
  \/ \E t \in Txns : Deadlock(t)

SpecRace == InitRace /\ [][NextRace]_vars

\* the vendor master and the payable bills
NextPayables ==
  \/ CreateVendor
  \/ UpdateVendor
  \/ DeleteVendor
  \/ CreateInwardBill
  \/ CancelInwardBill

SpecPayables == InitPayables /\ [][NextPayables]_vars

\* the customer master and the receivable bills
NextReceivables ==
  \/ CreateCustomer
  \/ UpdateCustomer
  \/ CreateOutwardBill
  \/ UpdateOutwardBill
  \/ CancelOutwardBill

SpecReceivables == InitReceivables /\ [][NextReceivables]_vars

SpecBatch == InitBatch /\ [][Next]_vars
SpecUtr == InitUtr /\ [][Next]_vars

\* ============================================================== claims
ProposalEdges ==
  {<<"draft", "submitted">>, <<"submitted", "under_review">>,
   <<"under_review", "under_review">>, <<"under_review", "approved">>,
   <<"under_review", "partial_approved">>, <<"under_review", "rejected">>,
   <<"approved", "completed">>, <<"partial_approved", "completed">>}

\* C1: every change of a proposal's status follows one of the edges
\* draft->submitted, submitted->under_review, under_review->under_review,
\* under_review->approved|partial_approved|rejected,
\* approved|partial_approved->completed.
C1_StatusFollowsEdges ==
  [][\A p \in DOMAIN proposals \cap DOMAIN proposals' :
       proposals'[p].status # proposals[p].status
         => <<proposals[p].status, proposals'[p].status>> \in ProposalEdges]_vars

\* C2: a proposal's status becomes completed only in a successful
\* create-from-proposal step on that proposal, which inserts a Payment that
\* references it; every proposal that is or ever was completed has a Payment.
C2_CompletedOnlyByBatch ==
  [][/\ \A p \in DOMAIN proposals' :
          (proposals'[p].status = "completed"
             /\ (p \notin DOMAIN proposals \/ proposals[p].status # "completed"))
          => /\ last' = [op |-> "create_from_proposal", id |-> p, ok |-> TRUE]
             /\ Len(payments') = Len(payments) + 1
             /\ payments'[Len(payments')].proposal_id = p
     /\ \A p \in everCompleted' :
          \E k \in DOMAIN payments' : payments'[k].proposal_id = p]_vars

\* a proposal that was completed and has left that status again
C2_Witness ==
  \E p \in everCompleted :
     /\ p \in DOMAIN proposals
     /\ proposals[p].status # "completed"
     /\ \E k \in DOMAIN payments : payments[k].proposal_id = p

\* C3: create-from-proposal on a proposal that is not approved or
\* partial_approved, or that has no item with owner_status = approved, fails:
\* it creates no Payment and no PaymentDetail and leaves the status as it was.
C3_BatchRefused ==
  [][last'.op = "create_from_proposal" /\ vars' # vars
       => LET p == last'.id
              allowed ==
                /\ p \in DOMAIN proposals
                /\ proposals[p].status \in {"approved", "partial_approved"}
                /\ \E i \in DOMAIN items :
                      items[i].proposal_id = p /\ items[i].owner_status = "approved"
          IN IF allowed
             THEN last'.ok
             ELSE /\ ~last'.ok
                  /\ payments' = payments
                  /\ details' = details
                  /\ proposals' = proposals]_vars

\* the second call against the proposal that the first call completed
C3_Witness ==
  /\ last = [op |-> "create_from_proposal", id |-> 1, ok |-> FALSE]
  /\ 1 \in DOMAIN proposals
  /\ proposals[1].status = "completed"
  /\ Len(payments) = 1

\* C4: every payable bill satisfies 0 <= paid_amount <= amount, and
\* paid_amount never decreases.
C4_PaidWithinAmount ==
  [][\A b \in DOMAIN bills' :
       /\ 0 <= bills'[b].paid_amount
       /\ bills'[b].paid_amount <= bills'[b].amount
       /\ b \in DOMAIN bills => bills'[b].paid_amount >= bills[b].paid_amount]_vars

confirmedSum(b) ==
  SumOver([d \in DOMAIN details |-> details[d].amount],
          {d \in DOMAIN details :
              details[d].bill_id = b /\ details[d].status = "confirmed"})

\* C5: each payable bill's paid_amount equals the sum of amount over the
\* confirmed PaymentDetails linked to that bill.
C5_PaidIsConfirmedSum ==
  \A b \in DOMAIN bills : bills[b].paid_amount = confirmedSum(b)

\* C7: an item's composite status becomes paid only in the UTR-entry step of
\* a PaymentDetail that references it, and the item had accounts_status =
\* approved and owner_status = approved before that step.
C7_PaidOnlyAfterBothApprovals ==
  [][\A i \in DOMAIN items \cap DOMAIN items' :
       items'[i].status = "paid" /\ items[i].status # "paid"
         => /\ last'.op = "update_utr"
            /\ \E d \in DOMAIN details : details[d].proposal_item_id = i
            /\ items[i].accounts_status = "approved"
            /\ items[i].owner_status = "approved"]_vars

\* C8: once an item's composite status is paid, no accounts-action or
\* owner-action on its proposal changes that status.
C8_PaidIsTerminal ==
  [][\A i \in DOMAIN items :
       /\ items[i].status = "paid"
       /\ last'.op \in {"accounts_action", "owner_action"}
       /\ last'.id = items[i].proposal_id
       => i \in DOMAIN items' /\ items'[i].status = "paid"]_vars

\* C9: an item whose owner_status is approved, deferred or rejected has an
\* owner-stage composite status or paid, never proposed, accounts_approved or
\* accounts_held.
C9_StatusReflectsOwnerTrack ==
  \A i \in DOMAIN items :
    items[i].owner_status \in {"approved", "deferred", "rejected"}
      => items[i].status \in {"owner_approved", "carry_forward", "owner_deferred",
                              "owner_rejected", "paid"}

liveItem(i) == items[i].status \notin {"owner_rejected", "paid"}

activeProposal(p) ==
  p \in DOMAIN proposals /\ proposals[p].status \notin {"rejected", "completed"}

\* C10: no bill is attached, through items whose status is not owner_rejected
\* or paid, to two different proposals whose status is not rejected or
\* completed, and no proposal contains two items for the same bill.
C10_NoDoubleProposing ==
  \A i, j \in DOMAIN items :
    i # j /\ items[i].bill_id = items[j].bill_id
      => /\ items[i].proposal_id # items[j].proposal_id
         /\ ~(/\ liveItem(i) /\ liveItem(j)
              /\ activeProposal(items[i].proposal_id)
              /\ activeProposal(items[j].proposal_id))

\* an item that still commits its bill: a live item of an active proposal
committed(b) ==
  \E i \in DOMAIN items :
     items[i].bill_id = b /\ liveItem(i) /\ activeProposal(items[i].proposal_id)

\* C11: for every value of the filter parameter, available-bills returns
\* only bills that are active, not paid, and have no item with status outside
\* {owner_rejected, paid} in a proposal with status outside {rejected,
\* completed}; a bill whose blocking items are all owner_rejected (or whose
\* proposals are closed) is returned again by the unfiltered query.
C11_OnlyEligibleReturned ==
  /\ \A f \in Filters : \A b \in availableBills(f) :
        /\ bills[b].status = "active"
        /\ bills[b].payment_status # "paid"
        /\ ~committed(b)
  /\ \A b \in DOMAIN bills :
        /\ bills[b].status = "active"
        /\ bills[b].payment_status # "paid"
        /\ ~committed(b)
        => b \in availableBills("none")

\* C12: the bill of an item the owner deferred (owner_status deferred,
\* status carry_forward), if active and not paid, is returned by
\* available-bills both without a filter and with filter = carry_forward,
\* whether the deferring proposal is partial_approved, rejected or completed.
C12_DeferredBillEligible ==
  \A i \in DOMAIN items :
     /\ items[i].owner_status = "deferred"
     /\ items[i].status = "carry_forward"
     /\ items[i].proposal_id \in DOMAIN proposals
     /\ proposals[items[i].proposal_id].status
           \in {"partial_approved", "rejected", "completed"}
     /\ items[i].bill_id \in DOMAIN bills
     /\ bills[items[i].bill_id].status = "active"
     /\ bills[items[i].bill_id].payment_status # "paid"
     => /\ items[i].bill_id \in availableBills("none")
        /\ items[i].bill_id \in availableBills("carry_forward")

\* the entries of body decide items of proposal p, each item once
decidesItemsOf(p, body) ==
  /\ Len(body) >= 1
  /\ \A k \in 1..Len(body) :
        body[k].item_id \in DOMAIN items /\ items[body[k].item_id].proposal_id = p
  /\ \A k, l \in 1..Len(body) : k # l => body[k].item_id # body[l].item_id

\* C13: an owner action deciding items of a proposal under review leaves it
\* approved if every decided item was approved, partial_approved if at least
\* one was approved and at least one deferred, rejected if none was approved;
\* approved and rejected items with no deferral never give approved.
C13_OwnerOutcome ==
  \A p \in DOMAIN proposals, body \in Batches(Entries(lim.ownerAmount)) :
     proposals[p].status = "under_review" /\ ownerValid(body) /\ decidesItemsOf(p, body)
     => LET after == ownerActionProposals(proposals, p, body)[p].status
            words == {body[k].action : k \in 1..Len(body)}
        IN /\ words = {"approve"} => after = "approved"
           /\ {"approve", "defer"} \subseteq words => after = "partial_approved"
           /\ "approve" \notin words => after = "rejected"
           /\ words = {"approve", "reject"} => after # "approved"

\* the entry of body that decides item i last
lastEntry(body, i) ==
  body[CHOOSE k \in 1..Len(body) :
         /\ body[k].item_id = i
         /\ \A l \in (k + 1)..Len(body) : body[l].item_id # i]

decidedBy(body) == {body[k].item_id : k \in 1..Len(body)}

\* C14: an accounts action approve / hold / reject on an item sets
\* accounts_status to approved / held / pending and status to
\* accounts_approved / accounts_held / proposed; it changes no item's
\* owner_status, owner_amount or proposed_amount, and a reject never leaves
\* the item in a terminal status.
C14_AccountsEffect ==
  \A body \in Batches(Entries(lim.accountsAmount)) :
     accountsValid(body)
     => LET after == accountsActionItems(items, body)
        IN /\ DOMAIN after = DOMAIN items
           /\ \A i \in DOMAIN items :
                 /\ after[i].owner_status = items[i].owner_status
                 /\ after[i].owner_amount = items[i].owner_amount
                 /\ after[i].proposed_amount = items[i].proposed_amount
                 /\ i \in decidedBy(body)
                    => LET action == lastEntry(body, i).action
                       IN /\ action = "approve"
                             => /\ after[i].accounts_status = "approved"
                                /\ after[i].status = "accounts_approved"
                          /\ action = "hold"
                             => /\ after[i].accounts_status = "held"
                                /\ after[i].status = "accounts_held"
                          /\ action = "reject"
                             => /\ after[i].accounts_status = "pending"
                                /\ after[i].status = "proposed"
                                /\ after[i].status \notin {"owner_rejected", "paid"}

\* an accounts hold on an item the owner had already approved
C14_Witness ==
  /\ last.op = "accounts_action" /\ last.ok
  /\ \E i \in DOMAIN items :
        /\ items[i].accounts_status = "held"
        /\ items[i].status = "accounts_held"
        /\ items[i].owner_status = "approved"
        /\ items[i].owner_amount # NoAmount

\* C15: an owner action approve / defer / reject on an item sets
\* owner_status to approved / deferred / rejected and status to
\* owner_approved / carry_forward / owner_rejected; it changes no item's
\* accounts_status or accounts_amount.
C15_OwnerEffect ==
  \A body \in Batches(Entries(lim.ownerAmount)) :
     ownerValid(body)
     => LET after == ownerActionItems(items, body)
        IN /\ DOMAIN after = DOMAIN items
           /\ \A i \in DOMAIN items :
                 /\ after[i].accounts_status = items[i].accounts_status
                 /\ after[i].accounts_amount = items[i].accounts_amount
                 /\ i \in decidedBy(body)
                    => LET action == lastEntry(body, i).action
                       IN /\ action = "approve"
                             => /\ after[i].owner_status = "approved"
                                /\ after[i].status = "owner_approved"
                          /\ action = "defer"
                             => /\ after[i].owner_status = "deferred"
                                /\ after[i].status = "carry_forward"
                          /\ action = "reject"
                             => /\ after[i].owner_status = "rejected"
                                /\ after[i].status = "owner_rejected"

\* an owner deferral of an item that accounts had approved
C15_Witness ==
  /\ last.op = "owner_action" /\ last.ok
  /\ \E i \in DOMAIN items :
        /\ items[i].owner_status = "deferred"
        /\ items[i].status = "carry_forward"
        /\ items[i].accounts_status = "approved"
        /\ items[i].accounts_amount # NoAmount

\* C16: an accounts action applied a second time with the same decisions
\* gives the same item rows (statuses and amounts) and the same proposal
\* status and total_amount as applying it once.
C16_AccountsIdempotent ==
  \A id \in ProposalIds, body \in Batches(Entries(lim.accountsAmount)) :
     LET items1 == accountsActionItems(items, body)
         proposals1 == accountsActionProposals(proposals, id, body)
     IN /\ accountsActionItems(items1, body) = items1
        /\ accountsActionProposals(proposals1, id, body) = proposals1

\* an accounts approval is in effect on an item of a proposal under review
C16_Witness ==
  /\ last.op = "accounts_action" /\ last.ok
  /\ last.id \in DOMAIN proposals
  /\ proposals[last.id].status = "under_review"
  /\ \E i \in DOMAIN items :
        /\ items[i].proposal_id = last.id
        /\ items[i].accounts_status = "approved"
        /\ items[i].accounts_amount # NoAmount

\* C17: submit turns a proposal from draft to submitted exactly when it is in
\* draft and the caller is the purchase user who created it or has the owner
\* role; in every other case it fails and leaves the proposal unchanged.
C17_SubmitByCreatorOrOwner ==
  [][last'.op = "submit" /\ <<last, caller>>' # <<last, caller>>
       => LET p == last'.id
              allowed ==
                /\ p \in DOMAIN proposals
                /\ proposals[p].status = "draft"
                /\ \/ role(caller') = "purchase" /\ proposals[p].created_by = caller'
                   \/ role(caller') = "owner"
          IN IF allowed
             THEN /\ last'.ok
                  /\ proposals' = [proposals EXCEPT ![p].status = "submitted"]
             ELSE /\ ~last'.ok
                  /\ proposals' = proposals]_vars

\* C18: a delete succeeds only on a draft proposal for its creator or an
\* owner and then removes the proposal with all its items; a refused delete
\* leaves the proposal and every one of its items unchanged.
C18_RefusedDeleteChangesNothing ==
  [][last'.op = "delete_proposal"
       /\ (<<last, caller>>' # <<last, caller>> \/ tables' # tables)
       => LET p == last'.id
          IN IF last'.ok
             THEN /\ p \in DOMAIN proposals
                  /\ proposals[p].status = "draft"
                  /\ proposals[p].created_by = caller' \/ role(caller') = "owner"
                  /\ p \notin DOMAIN proposals'
                  /\ \A i \in DOMAIN items' : items'[i].proposal_id # p
             ELSE /\ proposals' = proposals
                  /\ items' = items]_vars

\* C19: a successful create-from-proposal inserts one Payment and, for each
\* item of the proposal with owner_status = approved, one PaymentDetail
\* without UTR whose amount is the item's owner_amount; the Payment's
\* total_amount is the sum of those details' amounts.
C19_BatchMatchesApprovedItems ==
  [][Len(payments') # Len(payments)
       => LET pay == Len(payments')
              p == payments'[pay].proposal_id
              approved == {i \in DOMAIN items :
                             items[i].proposal_id = p /\ items[i].owner_status = "approved"}
              new == (Len(details) + 1)..Len(details')
          IN /\ pay = Len(payments) + 1
             /\ last' = [op |-> "create_from_proposal", id |-> p, ok |-> TRUE]
             /\ \A d \in DOMAIN details : details'[d] = details[d]
             /\ Cardinality(new) = Cardinality(approved)
             /\ \A i \in approved :
                   \E d \in new :
                      /\ details'[d].proposal_item_id = i
                      /\ details'[d].payment_id = pay
                      /\ details'[d].bill_id = items[i].bill_id
                      /\ details'[d].amount = items[i].owner_amount
                      /\ details'[d].utr_number = NoUtr
             /\ payments'[pay].total_amount =
                   SumOver([d \in new |-> details'[d].amount], new)]_vars

\* a batch of two details whose total is not the sum of the proposed amounts
C19_Witness ==
  /\ last.op = "create_from_proposal" /\ last.ok
  /\ Len(payments) = 1 /\ Len(details) = 2
  /\ payments[1].total_amount = details[1].amount + details[2].amount
  /\ details[1].proposal_item_id # details[2].proposal_item_id
  /\ payments[1].total_amount # proposals[payments[1].proposal_id].total_amount

\* C20: after an accepted update-utr call on a payment its status is confirmed if no
\* detail of the payment is without a non-empty UTR and processed otherwise;
\* no payment is confirmed while one of its details lacks a UTR.
C20_ConfirmedIffAllUtrs ==
  [][/\ last'.op = "update_utr" /\ last'.ok /\ last'.id \in DOMAIN payments'
        => payments'[last'.id].status =
             IF \A d \in DOMAIN details' :
                   details'[d].payment_id = last'.id
                     => details'[d].utr_number \notin {NoUtr, ""}
             THEN "confirmed" ELSE "processed"
     /\ \A id \in DOMAIN payments' :
          payments'[id].status = "confirmed"
            => \A d \in DOMAIN details' :
                  details'[d].payment_id = id
                    => details'[d].utr_number \notin {NoUtr, ""}]_vars

\* one of the payment's two details has its UTR, the other has none
C20_Witness ==
  /\ last = [op |-> "update_utr", id |-> 1, ok |-> TRUE]
  /\ Len(payments) = 1 /\ Len(details) = 2
  /\ payments[1].status = "processed"
  /\ \E d, e \in DOMAIN details :
        /\ details[d].payment_id = 1 /\ details[d].utr_number = "UTR1"
        /\ details[e].payment_id = 1 /\ details[e].utr_number = NoUtr

\* C22: update-utr is atomic per call: when a detail of the batch cannot be
\* processed, every PaymentDetail, every bill's paid_amount, every item
\* status and the payment's status are as they were before the call.
C22_UtrBatchAtomic ==
  \A id \in PaymentIds, body \in Batches(UtrEntries) :
     (\E k \in 1..Len(body) : body[k].detail_id = BadDetailId)
     => updateUtrTables(details, bills, items, payments, id, body)
          = <<details, bills, items, payments>>

\* a refused call on a payment of two details, none of which was touched
C22_Witness ==
  /\ last = [op |-> "update_utr", id |-> 1, ok |-> FALSE]
  /\ Len(payments) = 1 /\ Len(details) = 2
  /\ payments[1].status = "pending"
  /\ \A d \in DOMAIN details :
        details[d].utr_number = NoUtr /\ details[d].status = "pending"

\* the response names the failing entry by its item_id or its position
identifiesItem(response) ==
  \E c \in response.message.carries : c[1] \in {"item_id", "index"}

\* C23: an accounts-action or owner-action batch on items of a proposal that
\* holds an invalid action at any position fails with an error that identifies
\* the failing item, and changes no item and no proposal status.
C23_InvalidBatchRefused ==
  \A env \in NodeEnvs, p \in DOMAIN proposals :
     /\ \A body \in Batches(Entries(lim.accountsAmount)) :
          decidesItemsOf(p, body) /\ ~accountsValid(body)
          => /\ accountsActionItems(items, body) = items
             /\ accountsActionProposals(proposals, p, body) = proposals
             /\ accountsActionResponse(env, body).status >= 400
             /\ identifiesItem(accountsActionResponse(env, body))
     /\ \A body \in Batches(Entries(lim.ownerAmount)) :
          decidesItemsOf(p, body) /\ ~ownerValid(body)
          => /\ ownerActionItems(items, body) = items
             /\ ownerActionProposals(proposals, p, body) = proposals
             /\ ownerActionResponse(env, body).status >= 400
             /\ identifiesItem(ownerActionResponse(env, body))

\* C24: cancelling a payable bill with a non-empty reason succeeds when
\* paid_amount = 0 and sets status = cancelled with the reason and the actor;
\* with paid_amount > 0, or an empty or missing reason, it is refused and the
\* bill is as it was.
C24_CancelRule ==
  \A id \in DOMAIN bills, reason \in Reasons, user \in {"owner1"} :
     LET bill == bills[id]
         after == cancelResult(bill, reason, user)
     IN IF reason \notin {Undefined, ""} /\ bill.paid_amount = 0
        THEN after = [bill EXCEPT !.status = "cancelled", !.cancel_reason = reason,
                                  !.cancelled_by = user]
        ELSE after = bill /\ ~cancelAccepted(bill, reason)

\* a cancel refused on an active bill that has a payment
C24_Witness ==
  /\ last = [op |-> "cancel_bill", id |-> 1, ok |-> FALSE]
  /\ Len(bills) = 1
  /\ bills[1].paid_amount > 0
  /\ bills[1].status = "active"
  /\ bills[1].cancel_reason = Null

\* C25: an edit of a cancelled bill, of a bill whose payment_status is paid,
\* or with no allowed field is refused and leaves the bill with its version;
\* any other edit adds exactly 1 to version; no step lowers a version.  The
\* edits are tried on every bill row a step has produced.
C25_UpdateRule ==
  [][/\ \A id \in DOMAIN bills :
          id \in DOMAIN bills' /\ bills'[id].version >= bills[id].version
     /\ bills' # bills =>
          \A id \in DOMAIN bills', updates \in Updates :
             LET bill == bills'[id]
                 after == updateResult(bill, updates)
             IN IF \/ bill.status = "cancelled"
                   \/ bill.payment_status = "paid"
                   \/ /\ updates.amount = NoAmount
                      /\ updates.invoice_date = NoDate
                      /\ updates.credit_days = NoDays
                      /\ updates.remarks = Undefined
                THEN after = bill
                ELSE after.version = bill.version + 1]_vars

\* an edit refused on an active bill that is fully paid
C25_Witness ==
  /\ last = [op |-> "update_bill", id |-> 1, ok |-> FALSE]
  /\ Len(bills) = 1
  /\ bills[1].status = "active"
  /\ bills[1].payment_status = "paid"
  /\ bills[1].version = 1

\* C26: after creation and after every successful edit of a payable bill,
\* due_date = invoice_date + credit_days, an edit of credit_days to 0 included.
C26_DueDateFollows ==
  \A id \in DOMAIN bills :
     bills[id].due_date = bills[id].invoice_date + bills[id].credit_days

\* the roles each mutating operation is open to
AllowedRoles(op) ==
  IF op = "create_bill" THEN {"godown", "owner"}
  ELSE IF op \in {"update_bill", "cancel_bill", "owner_action"} THEN {"owner"}
  ELSE IF op \in {"create_proposal", "submit", "delete_proposal"}
       THEN {"purchase", "owner"}
  ELSE {"accounts", "owner"}

C27_OutwardDueDateFollows ==
  \A i \in DOMAIN outward :
     outward[i].due_date = outward[i].invoice_date + outward[i].credit_days

\* the bucket the claims give to d = today - due_date, by its edges
bucketOf(d, e1, e2, e3, names) ==
  IF d <= 0 THEN names[1]
  ELSE IF d <= e1 THEN names[2]
  ELSE IF d <= e2 THEN names[3]
  ELSE IF d <= e3 THEN names[4] ELSE names[5]

receivableBucketOf(d) ==
  bucketOf(d, 15, 21, 30, <<"current", "1-15", "16-21", "22-30", "30+">>)

payableBucketOf(d) ==
  bucketOf(d, 30, 60, 90, <<"current", "1-30", "31-60", "61-90", "90+">>)

\* C28: every receivable bill that is neither cancelled nor paid adds its
\* outstanding amount to exactly the bucket of d = today - due_date (current
\* for d <= 0, 1-15, 16-21, 22-30, 30+ for d >= 31), globally and per
\* customer; the five amounts sum to the total outstanding and each count is
\* the number of bills of the bucket.
C28_ReceivablesBuckets ==
  LET open == {i \in DOMAIN outward : outward[i].status \notin {"cancelled", "paid"}}
      owed(rows) == SumOver([i \in DOMAIN outward |->
                               outward[i].amount - outward[i].collected_amount], rows)
      inBucket(b) == {i \in open :
                        receivableBucketOf(CURRENT_DATE - outward[i].due_date) = b}
      ageing == receivablesAgeing(outward)
      report == receivablesReport(customers, outward)
  IN /\ \A b \in ReceivableBuckets :
          /\ ageing[b].amount = owed(inBucket(b))
          /\ ageing[b].count = Cardinality(inBucket(b))
     /\ SumOver([b \in ReceivableBuckets |-> ageing[b].amount], ReceivableBuckets)
          = owed(open)
     /\ \A c \in DOMAIN customers, b \in ReceivableBuckets :
          customerAgeing(outward, c)[b]
            = owed({i \in inBucket(b) : outward[i].customer_id = c})
     /\ \A c \in DOMAIN report :
          SumOver(report[c].buckets, ReceivableBuckets) = report[c].total_outstanding

\* two open bills 15 and 16 days overdue, counted in 1-15 and in 16-21
C28_Witness ==
  /\ Len(outward) = 2
  /\ outward[1].status = "active" /\ outward[2].status = "active"
  /\ CURRENT_DATE - outward[1].due_date = 15 /\ outward[1].amount = 1
  /\ CURRENT_DATE - outward[2].due_date = 16 /\ outward[2].amount = 2
  /\ receivablesAgeing(outward)["1-15"] = [amount |-> 1, count |-> 1]
  /\ receivablesAgeing(outward)["16-21"] = [amount |-> 2, count |-> 1]

\* C29: every active payable bill that is not fully paid adds its outstanding
\* amount to exactly the bucket of d = today - due_date (current, 1-30, 31-60,
\* 61-90, 90+ for d >= 91); per vendor and globally the five amounts sum to
\* the total, and the rows of the active vendors sum to the global summary.
C29_PayablesBuckets ==
  LET open == {b \in DOMAIN bills :
                 bills[b].status = "active" /\ bills[b].payment_status # "paid"}
      owed(rows) == SumOver([b \in DOMAIN bills |->
                               bills[b].amount - bills[b].paid_amount], rows)
      inBucket(k) == {b \in open :
                        payableBucketOf(CURRENT_DATE - bills[b].due_date) = k}
      summary == payablesSummary(bills)
      report == payablesReport(vendors, bills)
  IN /\ \A k \in PayableBuckets : summary.buckets[k] = owed(inBucket(k))
     /\ SumOver(summary.buckets, PayableBuckets) = summary.grand_total
     /\ \A v \in DOMAIN report :
          SumOver(report[v].buckets, PayableBuckets) = report[v].total_outstanding
     /\ \A k \in PayableBuckets :
          SumOver([v \in DOMAIN report |-> report[v].buckets[k]], DOMAIN report)
            = summary.buckets[k]
     /\ SumOver([v \in DOMAIN report |-> report[v].total_outstanding], DOMAIN report)
          = summary.grand_total

\* a bill that is not cancelled and not fully settled
outstandingBill(bill) == bill.status # "cancelled" /\ bill.paid_amount < bill.amount

\* C31: no operation deactivates a vendor that has an outstanding bill: a
\* vendor that is active and has a bill that is neither cancelled nor fully
\* settled is still active after every request.
C31_NoDeactivationWhileOutstanding ==
  [][\A v \in DOMAIN vendors :
       /\ vendors[v].is_active
       /\ \E b \in DOMAIN bills :
             bills[b].vendor_id = v /\ outstandingBill(bills[b])
       => vendors'[v].is_active]_vars

\* C32: creating a payable bill fails, creating no bill, when the referenced
\* vendor does not exist or is inactive: every bill that a request adds names
\* a vendor that has a row and is active when the bill is created.
C32_BillOnActiveVendor ==
  [][\A b \in DOMAIN bills' \ DOMAIN bills :
       /\ bills'[b].vendor_id \in DOMAIN vendors
       /\ vendors[bills'[b].vendor_id].is_active]_vars

\* C36: no payable bill is cancelled with paid_amount > 0, and no request
\* adds to the paid_amount of a cancelled bill.
C36_CancelledNeverPaid ==
  [][\A b \in DOMAIN bills' :
       /\ ~(bills'[b].status = "cancelled" /\ bills'[b].paid_amount > 0)
       /\ b \in DOMAIN bills /\ bills[b].status = "cancelled"
            => bills'[b].paid_amount = bills[b].paid_amount]_vars

\* C37: a proposal's status agrees with the owner decisions stored on all of
\* its items: approved implies that no item of it is deferred, and approved
\* or partial_approved implies that an item of it is approved by the owner.
C37_StatusAgreesWithItems ==
  \A p \in DOMAIN proposals :
     LET own == {i \in DOMAIN items : items[i].proposal_id = p}
     IN /\ proposals[p].status = "approved"
             => \A i \in own : items[i].owner_status # "deferred"
        /\ proposals[p].status \in {"approved", "partial_approved"}
             => \E i \in own : items[i].owner_status = "approved"

\* C38: an accounts-action or owner-action addressed to proposal P leaves
\* every item of another proposal as it was, whatever item_ids the request
\* names.
C38_ActionsStayInProposal ==
  \A id \in DOMAIN proposals :
     /\ \A body \in Batches(Entries(lim.accountsAmount)) :
           \A i \in DOMAIN items :
              items[i].proposal_id # id
                => accountsActionItems(items, body)[i] = items[i]
     /\ \A body \in Batches(Entries(lim.ownerAmount)) :
           \A i \in DOMAIN items :
              items[i].proposal_id # id
                => ownerActionItems(items, body)[i] = items[i]

\* C35: at most one Payment references a given proposal and at most one
\* PaymentDetail references a given ProposalItem.
C35_OnePaymentPerProposal ==
  /\ \A k, l \in DOMAIN payments :
        payments[k].proposal_id = payments[l].proposal_id => k = l
  /\ \A d, e \in DOMAIN details :
        details[d].proposal_item_id = details[e].proposal_item_id => d = e

\* C39: an update-utr call addressed to payment P leaves every detail of
\* another payment that the request names as it was, and with it the
\* paid_amount of its bill and the status of its item, unless a detail of P
\* in the same request is linked to that bill or item.
C39_UtrStaysInPayment ==
  \A id \in DOMAIN payments, body \in Batches(UtrEntries) :
     LET st == updateUtrTables(details, bills, items, payments, id, body)
         named == {body[k].detail_id : k \in 1..Len(body)} \cap DOMAIN details
         own == {d \in named : details[d].payment_id = id}
     IN \A d \in named \ own :
          LET b == details[d].bill_id
              i == details[d].proposal_item_id
          IN /\ st[1][d] = details[d]
             /\ (\A o \in own : details[o].bill_id # b)
                  => st[2][b].paid_amount = bills[b].paid_amount
             /\ (i \in DOMAIN items /\ \A o \in own : details[o].proposal_item_id # i)
                  => st[3][i].status = items[i].status

\* <<proposal_items, proposals>> after the handler of x has run alone on st
runAlone(x, st) ==
  IF x.kind = "accounts"
  THEN <<accountsActionItems(st[1], x.body),
         accountsActionProposals(st[2], x.id, x.body)>>
  ELSE <<ownerActionItems(st[1], x.body),
         ownerActionProposals(st[2], x.id, x.body)>>

finished(x) == x.state \in {"done", "failed"}

\* an accounts-action a and an owner-action o on the same proposal have run
\* side by side and the step ends the second of them
raceEnds(a, o) ==
  /\ a.kind = "accounts" /\ o.kind = "owner"
  /\ a.id = o.id
  /\ a.overlapped /\ o.overlapped
  /\ finished(a) /\ finished(o)
  /\ ~Quiet

\* C33 as stated: after an accounts-action and an owner-action have run side
\* by side on the same proposal, proposal_items and proposals are what one of
\* the two serial orders of the two actions leaves.
C33_SerialOrder ==
  [][\A t \in Txns :
       LET a == txn'.slot[t]
           o == txn'.slot[other(t)]
           base == txn'.base
       IN raceEnds(a, o)
          => <<items', proposals'>> \in {runAlone(o, runAlone(a, base)),
                                         runAlone(a, runAlone(o, base))}]_vars

\* C33 amended: after an accounts-action and an owner-action have run side by
\* side on the same proposal, proposal_items and proposals are what a serial
\* order of the actions that committed leaves: one of the two orders when
\* both committed, the other action alone when the store ended one of them
\* to break a deadlock.
C33_SerialOrderOfCommitted ==
  [][\A t \in Txns :
       LET a == txn'.slot[t]
           o == txn'.slot[other(t)]
           base == txn'.base
       IN raceEnds(a, o)
          => <<items', proposals'>> \in
               IF a.state = "done" /\ o.state = "done"
               THEN {runAlone(o, runAlone(a, base)), runAlone(a, runAlone(o, base))}
               ELSE IF a.state = "done" THEN {runAlone(a, base)}
               ELSE IF o.state = "done" THEN {runAlone(o, base)}
               ELSE {base}]_vars

\* both actions committed after running side by side, and an item that both
\* requests name carries both decisions
C33_Witness ==
  \E t \in Txns :
     LET a == txn.slot[t]
         o == txn.slot[other(t)]
     IN /\ a.kind = "accounts" /\ o.kind = "owner" /\ a.id = o.id
        /\ a.overlapped /\ o.overlapped
        /\ a.state = "done" /\ o.state = "done"
        /\ Len(a.body) = 2 /\ Len(o.body) = 2
        /\ \E i \in DOMAIN items :
              /\ \E k \in 1..Len(a.body) : a.body[k].item_id = i
              /\ \E k \in 1..Len(o.body) : o.body[k].item_id = i
              /\ items[i].accounts_status = "approved"
              /\ items[i].owner_status = "approved"

\* C34: of two create-from-proposal calls for the same proposal that run side
\* by side, at most one commits a Payment and its PaymentDetails.
C34_OneBatchWins ==
  \A t \in Txns :
     LET x == txn.slot[t]
         y == txn.slot[other(t)]
     IN /\ x.kind = "batch" /\ y.kind = "batch"
        /\ x.id = y.id
        /\ x.overlapped /\ y.overlapped
        => ~(x.state = "done" /\ y.state = "done")
====
